---- MODULE Spec2Model ----
(***************************************************************************)
(* Model of astroquery.nasa_exoplanet_archive.NasaExoplanetArchiveClass:   *)
(* a client with one table slot, two query keys and a lazily loaded units  *)
(* mapping, and the three query operations query_planet, query_star and    *)
(* get_confirmed_planets_table.  Every action is one whole call.           *)
(***************************************************************************)
EXTENDS Naturals, Sequences, FiniteSets, TLC

VARIABLES
    _param_units,   \* self._param_units: None or the loaded mapping
    _table,         \* self._table: None (NoTable) or the stored table
    _cache_planet,  \* self._cache_planet: None or the quoted planet key
    _cache_star,    \* self._cache_star: None or the quoted host key
    fetches,        \* number of table objects built so far (object identity)
    units_reads,    \* number of times the bundled units resource was read
    lastCall        \* what the most recent call was given, found and did

vars == <<_param_units, _table, _cache_planet, _cache_star, fetches,
          units_reads, lastCall>>

----------------------------------------------------------------------------
(* Bounds and input sets *)

\* Number of table objects one run may build.
MaxFetch == 2

\* Python's None in a slot that otherwise holds a str (a str key built by
\* the code always has its two quote characters, so <<>> is no key).
None == <<>>

\* Python's None for self._table and for "no table returned".
NoTable == [id |-> 0]

\* table_path=None
NoPath == "<None>"

\* self._param_units = None
NoUnits == [loaded |-> FALSE]

\* A column that carries no unit.
NoUnit == "<no unit>"

\* Names the caller may pass, as sequences of characters.
Names == { <<"a">>, <<" ", "a", " ">>, <<"b">> }

\* Longest name drawn where the claims are about the names themselves.
MaxNameLen == 3

\* The characters of those names.
Chars == { " ", "a", "b" }

\* Every name of at most MaxNameLen characters, the empty name included.
AllNames == UNION { [1..n -> Chars] : n \in 0..MaxNameLen }

\* Local table files the caller may pass as table_path.
Paths == { "local.csv" }

----------------------------------------------------------------------------
(* Constants and pure functions of the module *)

EXOPLANETS_CSV_URL ==
    "http://exoplanetarchive.ipac.caltech.edu/cgi-bin/nstedAPI/nph-nstedAPI?table=exoplanets"

\* timeout=120 of download_file
DownloadTimeout == 120

\* str.strip(): characters removed from both ends
Whitespace == { " ", "\t", "\n" }

RECURSIVE lstrip(_)
lstrip(s) ==
    IF s # <<>> /\ Head(s) \in Whitespace THEN lstrip(Tail(s)) ELSE s

RECURSIVE rstrip(_)
rstrip(s) ==
    IF s # <<>> /\ s[Len(s)] \in Whitespace
    THEN rstrip(SubSeq(s, 1, Len(s) - 1))
    ELSE s

strip(s) == rstrip(lstrip(s))

\* QuotedName without the strip
QuotedNameUntrimmed(name) == <<"'">> \o name \o <<"'">>

\* QuotedName that strips the left end only
QuotedNameLeftTrimmed(name) == <<"'">> \o lstrip(name) \o <<"'">>

\* "'{0}'".format(name.strip())
QuotedName(name) == <<"'">> \o strip(name) \o <<"'">>

\* urllib.parse.quote on one character: letters are kept, the characters of
\* the model's alphabet that are not unreserved are percent-encoded.
QuoteChar(c) ==
    CASE c = "'"  -> "%27"
      [] c = " "  -> "%20"
      [] c = "\t" -> "%09"
      [] c = "\n" -> "%0A"
      [] OTHER    -> c

RECURSIVE quote(_)
quote(s) == IF s = <<>> THEN "" ELSE QuoteChar(Head(s)) \o quote(Tail(s))

\* EXOPLANET_URL_PLANET of query_planet
PlanetUrl(key) == EXOPLANETS_CSV_URL \o "&where=pl_name=" \o quote(key)

\* EXOPLANET_URL_PLANET of query_star
StarUrl(key) == EXOPLANETS_CSV_URL \o "&where=pl_hostname=" \o quote(key)

\* SelectUrl with the all_columns branch lost
SelectUrlDefault(base, all_columns) == base

\* exoplanets_url: the URL that is downloaded
SelectUrl(base, all_columns) ==
    IF all_columns THEN base \o "&select=*" ELSE base

----------------------------------------------------------------------------
(* The collaborators: the bundled units resource, astropy.units, the     *)
(* network and the table files                                           *)

\* data/exoplanet_nexsci_units.json as json.load returns it: column name to
\* unit name.  "pl_new" names a unit this astropy does not have.
UnitsResource ==
    [c \in {"pl_orbper", "pl_new", "st_teff"} |->
        CASE c = "pl_orbper" -> "day"
          [] c = "pl_new"    -> "bogus_unit"
          [] c = "st_teff"   -> "K"]

\* hasattr(u, name): the unit names astropy.units has
AstropyUnits == { "deg", "day", "K", "pc", "yr" }

\* What ascii.read(table_path, fast_reader=False) makes of a file: it raises
\* (ok = FALSE) or gives a table, each column with the unit the file's format
\* states for it (CSV states none; IPAC and ECSV headers state units).
Malformed == [net |-> TRUE, ok |-> FALSE, units |-> [c \in {} |-> NoUnit]]

CsvFile ==
    [net |-> TRUE, ok |-> TRUE,
     units |-> [c \in {"ra", "dec", "pl_name", "pl_orbper", "pl_new"} |-> NoUnit]]

IpacFile ==
    [net |-> TRUE, ok |-> TRUE,
     units |-> [c \in {"ra", "dec", "pl_orbper", "pl_new", "st_dist"} |->
                  CASE c = "pl_new"  -> "adu"
                    [] c = "st_dist" -> "pc"
                    [] OTHER         -> NoUnit]]

\* A well-formed file without the ra and dec columns.
NoCoordFile ==
    [net |-> TRUE, ok |-> TRUE,
     units |-> [c \in {"pl_name", "pl_orbper"} |-> NoUnit]]

Files == { Malformed, CsvFile, IpacFile, NoCoordFile }

\* download_file raises (URLError, timeout)
NetError == [net |-> FALSE, ok |-> FALSE, units |-> [c \in {} |-> NoUnit]]

\* What the world answers to one call: the download fails, or the file that
\* is downloaded or found at table_path has one of the contents above.
Responses == { NetError } \cup Files

\* The answers drawn where the claims are about the cache, not the columns.
CacheResponses == { NetError, Malformed, CsvFile }

\* The path download_file returns for a URL
DownloadedPath(url) == "cache:" \o url

----------------------------------------------------------------------------
(* Steps shared by the three operations *)

\* The property param_units: the mapping it returns
param_units == IF _param_units.loaded THEN _param_units.map ELSE UnitsResource

\* The property param_units: self._param_units after an access
ParamUnitsAfterAccess == [loaded |-> TRUE, map |-> param_units]

\* ReadsAfterAccess of a property that opens the resource on every access
ReadsEveryAccess == units_reads + 1

\* The property param_units: reads of the resource after an access
ReadsAfterAccess == IF _param_units.loaded THEN units_reads ELSE units_reads + 1

\* exoplanets_table['sky_coord'] = SkyCoord(ra=table['ra'] * u.deg, ...)
\* raises KeyError unless both columns exist
HasCoords(parsed) == {"ra", "dec"} \subseteq DOMAIN parsed.units

\* AssignUnit without the hasattr check
AssignUnitUnchecked(col, unit, pu) ==
    IF col \in DOMAIN pu THEN pu[col] ELSE unit

\* One pass of the loop "Assign units to columns where possible"
AssignUnit(col, unit, pu) ==
    IF col \in DOMAIN pu
    THEN IF pu[col] \in AstropyUnits THEN pu[col] ELSE unit
    ELSE unit

\* The columns of the table after sky_coord is added and the units loop ran
Annotate(parsed, pu) ==
    [c \in DOMAIN parsed.units \cup {"sky_coord"} |->
        IF c = "sky_coord"
        THEN AssignUnit(c, NoUnit, pu)
        ELSE AssignUnit(c, parsed.units[c], pu)]

\* Downloads that leaves show_progress at download_file's default
DownloadsDefaultProgress(base_url, cache, show_progress, table_path, all_columns) ==
    IF table_path = NoPath
    THEN << [url |-> SelectUrl(base_url, all_columns), cache |-> cache,
             show_progress |-> TRUE, timeout |-> DownloadTimeout] >>
    ELSE << >>

\* Downloads with a second attempt after the first
DownloadsRetried(base_url, cache, show_progress, table_path, all_columns) ==
    IF table_path = NoPath
    THEN LET d == [url |-> SelectUrl(base_url, all_columns), cache |-> cache,
                   show_progress |-> show_progress,
                   timeout |-> DownloadTimeout]
         IN  << d, d >>
    ELSE << >>

\* download_file(exoplanets_url, cache=cache, show_progress=show_progress,
\* timeout=120), called only when table_path is None
Downloads(base_url, cache, show_progress, table_path, all_columns) ==
    IF table_path = NoPath
    THEN << [url |-> SelectUrl(base_url, all_columns), cache |-> cache,
             show_progress |-> show_progress, timeout |-> DownloadTimeout] >>
    ELSE << >>

\* The else-branch of an operation up to the store: what is downloaded, what
\* is parsed, what the world answered (download_failed, parse_failed, parsed)
\* and how it ends.
Fetch(base_url, cache, show_progress, table_path, all_columns, resp) ==
    LET downloads == Downloads(base_url, cache, show_progress, table_path,
                               all_columns)
        path == IF table_path = NoPath
                THEN DownloadedPath(SelectUrl(base_url, all_columns))
                ELSE table_path
        raised == [downloads |-> downloads, reads |-> << >>,
                   download_failed |-> FALSE, parse_failed |-> FALSE,
                   parsed |-> Malformed.units, units |-> Malformed.units,
                   outcome |-> "fetch_error"]
    IN  IF downloads # << >> /\ ~resp.net
        THEN [raised EXCEPT !.download_failed = TRUE]
        ELSE IF ~resp.ok
        THEN [raised EXCEPT !.reads = <<path>>, !.parse_failed = TRUE,
                            !.outcome = "parse_error"]
        ELSE IF ~HasCoords(resp)
        THEN [raised EXCEPT !.reads = <<path>>, !.parsed = resp.units,
                            !.outcome = "annotate_error"]
        ELSE [raised EXCEPT !.reads = <<path>>, !.parsed = resp.units,
                            !.units = Annotate(resp, param_units),
                            !.outcome = "table"]

\* QTable(exoplanets_table): a new table object.  kind, key and src record
\* which query built it.
NewTable(kind, key, f) ==
    [id |-> fetches + 1, kind |-> kind, key |-> key,
     src |-> IF f.downloads # << >> THEN f.downloads[1].url ELSE f.reads[1],
     units |-> f.units]

\* a is b, for a stored key a and a key b built by this call: None is no
\* str; two str objects of different value are never the same object; whether
\* two equal str objects are one object is the interpreter's choice
\* (same_object).
Is(a, b, same_object) == a # None /\ a = b /\ same_object

----------------------------------------------------------------------------
(* The operations *)

\* The client's cache as a call finds it.
Cache == [table |-> _table, planet |-> _cache_planet, star |-> _cache_star]

NoCall ==
    [op |-> "none", name |-> << >>, key |-> None, cache |-> TRUE,
     show_progress |-> TRUE, table_path |-> NoPath,
     all_columns |-> FALSE, hit |-> FALSE, downloads |-> << >>,
     reads |-> << >>, download_failed |-> FALSE, parse_failed |-> FALSE,
     parsed |-> Malformed.units, outcome |-> "none", returned |-> NoTable,
     before |-> [table |-> NoTable, planet |-> None, star |-> None]]

Init ==
    /\ _param_units = NoUnits
    /\ _table = NoTable
    /\ _cache_planet = None
    /\ _cache_star = None
    /\ fetches = 0
    /\ units_reads = 0
    /\ lastCall = NoCall

\* ReturnStored that still parses a table_path the caller supplies
ReturnStoredRereading(call) ==
    /\ lastCall' = [call EXCEPT !.hit = TRUE, !.outcome = "table",
                                !.returned = _table,
                                !.reads = IF call.table_path = NoPath
                                          THEN << >>
                                          ELSE <<call.table_path>>]
    /\ UNCHANGED <<_param_units, _table, _cache_planet, _cache_star, fetches,
                   units_reads>>

\* "return self._table" of the if-branch: nothing is fetched, nothing changes
ReturnStored(call) ==
    /\ lastCall' = [call EXCEPT !.hit = TRUE, !.outcome = "table",
                                !.returned = _table]
    /\ UNCHANGED <<_param_units, _table, _cache_planet, _cache_star, fetches,
                   units_reads>>

\* Raise that drops the stored table on the way out
RaiseClearing(call, f) ==
    /\ lastCall' = [call EXCEPT !.downloads = f.downloads, !.reads = f.reads,
                                !.download_failed = f.download_failed,
                                !.parse_failed = f.parse_failed,
                                !.parsed = f.parsed, !.outcome = f.outcome]
    /\ _table' = NoTable
    /\ UNCHANGED <<_param_units, _cache_planet, _cache_star, fetches,
                   units_reads>>

\* An exception leaves the call before anything is assigned to self
Raise(call, f) ==
    /\ lastCall' = [call EXCEPT !.downloads = f.downloads, !.reads = f.reads,
                                !.download_failed = f.download_failed,
                                !.parse_failed = f.parse_failed,
                                !.parsed = f.parsed, !.outcome = f.outcome]
    /\ UNCHANGED <<_param_units, _table, _cache_planet, _cache_star, fetches,
                   units_reads>>

\* self._table = QTable(exoplanets_table) ... return self._table, after the
\* units loop has read self.param_units
StoreAndReturn(call, f, table) ==
    /\ fetches < MaxFetch
    /\ fetches' = fetches + 1
    /\ _param_units' = ParamUnitsAfterAccess
    /\ units_reads' = ReadsAfterAccess
    /\ _table' = table
    /\ lastCall' = [call EXCEPT !.downloads = f.downloads, !.reads = f.reads,
                                !.parsed = f.parsed, !.outcome = "table",
                                !.returned = table]

\* PlanetHit without "and cache"
PlanetHitIgnoringCache(key, cache, same_object) ==
    _table # NoTable /\ Is(_cache_planet, key, same_object)

\* PlanetHit without the key test, as get_confirmed_planets_table tests
PlanetHitAnyTable(key, cache, same_object) == _table # NoTable /\ cache

\* if self._table is not None and self._cache_planet is planet_name and cache
PlanetHit(key, cache, same_object) ==
    _table # NoTable /\ Is(_cache_planet, key, same_object) /\ cache

\* StarHit without the key test, as get_confirmed_planets_table tests
StarHitAnyTable(key, cache, same_object) == _table # NoTable /\ cache

\* if self._table is not None and self._cache_star is host_name and cache
StarHit(key, cache, same_object) ==
    _table # NoTable /\ Is(_cache_star, key, same_object) /\ cache

\* AllHit that also wants both keys unset
AllHitUnkeyed ==
    _table # NoTable /\ _cache_planet = None /\ _cache_star = None

\* if self._table is not None
AllHit == _table # NoTable

query_planet(planet_name, cache, show_progress, table_path, all_columns, same_object, resp) ==
    LET key == QuotedName(planet_name)
        call == [NoCall EXCEPT !.op = "planet", !.name = planet_name,
                    !.key = key, !.cache = cache,
                    !.show_progress = show_progress,
                    !.table_path = table_path,
                    !.all_columns = all_columns, !.before = Cache]
        f == Fetch(PlanetUrl(key), cache, show_progress, table_path,
                   all_columns, resp)
    IN  IF PlanetHit(key, cache, same_object)
        THEN ReturnStored(call)
        ELSE IF f.outcome # "table"
        THEN Raise(call, f)
        ELSE /\ StoreAndReturn(call, f, NewTable("planet", key, f))
             /\ _cache_planet' = key
             /\ UNCHANGED _cache_star

query_star(host_name, cache, show_progress, table_path, all_columns, same_object, resp) ==
    LET key == QuotedName(host_name)
        call == [NoCall EXCEPT !.op = "star", !.name = host_name,
                    !.key = key, !.cache = cache,
                    !.show_progress = show_progress,
                    !.table_path = table_path,
                    !.all_columns = all_columns, !.before = Cache]
        f == Fetch(StarUrl(key), cache, show_progress, table_path,
                   all_columns, resp)
    IN  IF StarHit(key, cache, same_object)
        THEN ReturnStored(call)
        ELSE IF f.outcome # "table"
        THEN Raise(call, f)
        ELSE /\ StoreAndReturn(call, f, NewTable("star", key, f))
             /\ _cache_star' = key
             /\ UNCHANGED _cache_planet

get_confirmed_planets_table(table_path, all_columns, cache, show_progress, resp) ==
    LET call == [NoCall EXCEPT !.op = "all", !.cache = cache,
                    !.show_progress = show_progress,
                    !.table_path = table_path, !.all_columns = all_columns,
                    !.before = Cache]
        f == Fetch(EXOPLANETS_CSV_URL, cache, show_progress, table_path,
                   all_columns, resp)
    IN  IF AllHit
        THEN ReturnStored(call)
        ELSE IF f.outcome # "table"
        THEN Raise(call, f)
        ELSE /\ StoreAndReturn(call, f, NewTable("all", None, f))
             /\ UNCHANGED <<_cache_planet, _cache_star>>

\* A caller reading the property param_units: the mapping is loaded if it
\* was not, and nothing else of the client changes.
access_param_units ==
    /\ _param_units' = ParamUnitsAfterAccess
    /\ units_reads' = ReadsAfterAccess
    /\ lastCall' = [NoCall EXCEPT !.op = "param_units", !.outcome = "units",
                                  !.before = Cache]
    /\ UNCHANGED <<_table, _cache_planet, _cache_star, fetches>>

\* The cache protocol: every name, key and flag that decides a hit, with the
\* default show_progress and the answers CacheResponses.
Next ==
    \/ \E n \in Names, c \in BOOLEAN, tp \in Paths \cup {NoPath},
          ac \in BOOLEAN, same \in BOOLEAN, r \in CacheResponses :
            query_planet(n, c, TRUE, tp, ac, same, r)
    \/ \E n \in Names, c \in BOOLEAN, tp \in Paths \cup {NoPath},
          ac \in BOOLEAN, same \in BOOLEAN, r \in CacheResponses :
            query_star(n, c, TRUE, tp, ac, same, r)
    \/ \E tp \in Paths \cup {NoPath}, ac \in BOOLEAN, c \in BOOLEAN,
          r \in CacheResponses :
            get_confirmed_planets_table(tp, ac, c, TRUE, r)

Spec == Init /\ [][Next]_vars

\* The fetch itself: one name, every flag and every answer.
NextFetch ==
    \/ \E c \in BOOLEAN, sp \in BOOLEAN, tp \in Paths \cup {NoPath},
          ac \in BOOLEAN, same \in BOOLEAN, r \in Responses :
            query_planet(<<"a">>, c, sp, tp, ac, same, r)
    \/ \E c \in BOOLEAN, sp \in BOOLEAN, tp \in Paths \cup {NoPath},
          ac \in BOOLEAN, same \in BOOLEAN, r \in Responses :
            query_star(<<"a">>, c, sp, tp, ac, same, r)
    \/ \E tp \in Paths \cup {NoPath}, ac \in BOOLEAN, c \in BOOLEAN,
          sp \in BOOLEAN, r \in Responses :
            get_confirmed_planets_table(tp, ac, c, sp, r)

SpecFetch == Init /\ [][NextFetch]_vars

\* The names: every name of AllNames in both queries by name, with the
\* archive out of reach, so that no table is stored and each call shows the
\* key and the URL it built.
NextNames ==
    \/ \E n \in AllNames, c \in BOOLEAN :
            query_planet(n, c, TRUE, NoPath, FALSE, FALSE, NetError)
    \/ \E n \in AllNames, c \in BOOLEAN :
            query_star(n, c, TRUE, NoPath, FALSE, FALSE, NetError)

SpecNames == Init /\ [][NextNames]_vars

\* The units mapping: the property read by a caller between downloads of the
\* whole table and queries of one planet, with every answer of the archive.
NextUnits ==
    \/ access_param_units
    \/ \E tp \in Paths \cup {NoPath}, c \in BOOLEAN, r \in Responses :
            get_confirmed_planets_table(tp, FALSE, c, TRUE, r)
    \/ \E c \in BOOLEAN, same \in BOOLEAN, r \in Responses :
            query_planet(<<"a">>, c, TRUE, NoPath, FALSE, same, r)

SpecUnits == Init /\ [][NextUnits]_vars

----------------------------------------------------------------------------
(* Properties *)

\* The last call was one of the two queries by name.
ByName == lastCall.op \in {"planet", "star"}

\* The last call returned a table.
Returned == lastCall.op # "none" /\ lastCall.outcome = "table"

\* The last call went through the else-branch and stored what it built.
Refetched ==
    /\ ~lastCall.hit
    /\ lastCall.outcome = "table"
    /\ Len(lastCall.reads) = 1
    /\ lastCall.returned # lastCall.before.table
    /\ lastCall.returned.id = fetches
    /\ _table = lastCall.returned

C2_RepeatedPlanetQueryHits ==
    [][ ( /\ lastCall.op = "planet"
          /\ lastCall.outcome = "table"
          /\ lastCall.cache
          /\ lastCall.table_path \in Paths
          /\ lastCall'.op = "planet"
          /\ lastCall'.key = lastCall.key
          /\ lastCall'.cache
          /\ lastCall'.table_path = lastCall.table_path
          /\ ~lastCall'.parse_failed )
        => ( /\ lastCall'.returned = lastCall.returned
             /\ lastCall'.downloads = << >>
             /\ lastCall'.reads = << >>
             /\ UNCHANGED <<_table, _cache_planet, _cache_star>> ) ]_vars

\* C3: with the star key never set, query_star(s, cache=True) right after a
\* successful query_planet(p, cache=True) does not return the stored table:
\* it goes through the else-branch, and when that succeeds the new table is
\* stored and the star key is the quoted s.
C3_StarAfterPlanetFetches ==
    [][ ( /\ lastCall.op = "planet"
          /\ lastCall.outcome = "table"
          /\ lastCall.cache
          /\ _cache_star = None
          /\ lastCall'.op = "star"
          /\ lastCall'.cache )
        => ( /\ ~lastCall'.hit
             /\ lastCall'.returned # _table
             /\ lastCall'.table_path = NoPath => Len(lastCall'.downloads) = 1
             /\ lastCall'.outcome = "table" =>
                  /\ Len(lastCall'.reads) = 1
                  /\ _table' = lastCall'.returned
                  /\ _table'.kind = "star"
                  /\ _cache_star' = lastCall'.key ) ]_vars

\* A query_star(s, cache=True) that found a planet table and no star key,
\* and stored its own table.
C3_Witness ==
    /\ lastCall.op = "star"
    /\ lastCall.cache
    /\ lastCall.before.star = None
    /\ lastCall.before.planet # None
    /\ lastCall.before.table # NoTable
    /\ lastCall.before.table.kind = "planet"
    /\ Refetched
    /\ _cache_star = lastCall.key

PlanetAfterFirstAll ==
    /\ lastCall.op = "all"
    /\ lastCall.outcome = "table"
    /\ lastCall.before.table = NoTable
    /\ lastCall'.op = "planet"
    /\ lastCall'.cache

\* C6 as stated: that query_planet returns the all-planets table and fetches
\* nothing.
C6_PlanetAfterAllReturnsAll ==
    [][ PlanetAfterFirstAll
        => ( /\ lastCall'.returned = _table
             /\ lastCall'.downloads = << >>
             /\ lastCall'.reads = << >> ) ]_vars

\* C6, amended: that query_planet does not return the all-planets table; the
\* planet key is still unset, so it downloads the planet's URL (or parses
\* table_path) and on success stores and returns the table it built for p.
C6_PlanetAfterAllFetches ==
    [][ PlanetAfterFirstAll
        => ( /\ ~lastCall'.hit
             /\ lastCall'.returned # _table
             /\ lastCall'.table_path = NoPath =>
                  /\ Len(lastCall'.downloads) = 1
                  /\ lastCall'.downloads[1].url
                       = SelectUrl(PlanetUrl(lastCall'.key),
                                   lastCall'.all_columns)
             /\ lastCall'.outcome = "table" =>
                  /\ Len(lastCall'.reads) = 1
                  /\ _table' = lastCall'.returned
                  /\ _table'.kind = "planet"
                  /\ _table'.key = lastCall'.key
                  /\ _cache_planet' = lastCall'.key ) ]_vars

\* query_planet(p, cache=True) replacing the all-planets table that the
\* first call of the client stored.
C6_Witness ==
    /\ lastCall.op = "planet"
    /\ lastCall.cache
    /\ lastCall.before.table # NoTable
    /\ lastCall.before.table.kind = "all"
    /\ lastCall.before.table.id = 1
    /\ lastCall.before.planet = None
    /\ Refetched
    /\ _table.kind = "planet"

\* C7: the table get_confirmed_planets_table returns was built by
\* get_confirmed_planets_table itself (no where-clause), never by
\* query_planet or query_star.
C7_AllReturnsUnfilteredTable ==
    (lastCall.op = "all" /\ lastCall.outcome = "table") =>
        lastCall.returned.kind = "all"

\* C8: a call downloads at most once; when the download fails the call ends
\* with a fetch error, when the file cannot be parsed it ends with a parse
\* error, and in both cases nothing is returned.
C8_FailuresPropagate ==
    lastCall.op # "none" =>
        /\ Len(lastCall.downloads) <= 1
        /\ lastCall.download_failed =>
             /\ Len(lastCall.downloads) = 1
             /\ lastCall.outcome = "fetch_error"
             /\ lastCall.reads = << >>
        /\ lastCall.parse_failed => lastCall.outcome = "parse_error"
        /\ lastCall.outcome # "table" => lastCall.returned = NoTable

\* A download that failed on a client that holds a table.
C8_Witness ==
    /\ lastCall.op = "star"
    /\ lastCall.download_failed
    /\ lastCall.before.table # NoTable
    /\ lastCall.returned = NoTable

\* The URL of the last call's operation and name before any select clause.
BaseUrl ==
    CASE lastCall.op = "planet" -> PlanetUrl(lastCall.key)
      [] lastCall.op = "star"   -> StarUrl(lastCall.key)
      [] OTHER                  -> EXOPLANETS_CSV_URL

\* C9: whenever a call downloads, the URL it asks for is the operation's URL
\* for that name when all_columns is false, and that URL followed by
\* "&select=*", which is another URL, when all_columns is true.
C9_AllColumnsAppendsSelect ==
    lastCall.downloads # << >> =>
        /\ ~lastCall.all_columns => lastCall.downloads[1].url = BaseUrl
        /\ lastCall.all_columns =>
             /\ lastCall.downloads[1].url = BaseUrl \o "&select=*"
             /\ lastCall.downloads[1].url # BaseUrl

\* query_star("a", all_columns=True) downloading.
C9_Witness ==
    /\ lastCall.op = "star"
    /\ lastCall.all_columns
    /\ lastCall.downloads # << >>
    /\ lastCall.downloads[1].url
         = "http://exoplanetarchive.ipac.caltech.edu/cgi-bin/nstedAPI/nph-nstedAPI?table=exoplanets&where=pl_hostname=%27a%27&select=*"

\* The last call parsed a file and returned the table it made of it.
Annotated ==
    lastCall.op # "none" /\ ~lastCall.hit /\ lastCall.outcome = "table"

\* C10 as stated: in the table a call parsed and returns, a column the units
\* mapping names with a unit astropy has carries that unit, a column it names
\* with a unit astropy lacks carries no unit, and any other column carries
\* the unit it was parsed with.
C10_UnknownUnitMeansNoUnit ==
    Annotated =>
        \A c \in DOMAIN lastCall.parsed :
            LET pu == _param_units.map
                unit == lastCall.returned.units[c]
            IN  /\ (c \in DOMAIN pu /\ pu[c] \in AstropyUnits) => unit = pu[c]
                /\ (c \in DOMAIN pu /\ pu[c] \notin AstropyUnits) => unit = NoUnit
                /\ c \notin DOMAIN pu => unit = lastCall.parsed[c]

\* C10, amended: a column the mapping names with a unit astropy has carries
\* that unit; a column it names with a unit astropy lacks, like a column it
\* does not name, carries whatever unit the file was parsed with (none for a
\* CSV file); and an unknown unit name never makes the call fail.
C10_UnknownUnitLeavesColumn ==
    /\ Annotated =>
          \A c \in DOMAIN lastCall.parsed :
              LET pu == _param_units.map
                  unit == lastCall.returned.units[c]
              IN  /\ (c \in DOMAIN pu /\ pu[c] \in AstropyUnits) => unit = pu[c]
                  /\ (c \in DOMAIN pu /\ pu[c] \notin AstropyUnits) =>
                       unit = lastCall.parsed[c]
                  /\ c \notin DOMAIN pu => unit = lastCall.parsed[c]
    /\ lastCall.outcome = "annotate_error" =>
          ~({"ra", "dec"} \subseteq DOMAIN lastCall.parsed)

\* A returned table parsed from a file whose header gives units: pl_orbper
\* got the mapping's unit, pl_new (mapped to an unknown unit) and st_dist
\* (not mapped) kept the file's.
C10_Witness ==
    /\ Annotated
    /\ lastCall.parsed = IpacFile.units
    /\ lastCall.returned.units["pl_orbper"] = "day"
    /\ lastCall.returned.units["pl_new"] = "adu"
    /\ lastCall.returned.units["st_dist"] = "pc"

\* C11: a planet-name hit and a star-name hit exclude each other: in no
\* state is there a planet name p and a star name s for which both
\* query_planet(p, cache=True) and query_star(s, cache=True) would take the
\* if-branch, because a store under one kind of key unsets the other key.
C11_HitsAreExclusive ==
    /\ ~ \E p \in Names, s \in Names :
            /\ PlanetHit(QuotedName(p), TRUE, TRUE)
            /\ StarHit(QuotedName(s), TRUE, TRUE)
    /\ ~(_cache_planet # None /\ _cache_star # None)

\* The positions of a name that hold no whitespace.
Inked(name) == { i \in 1..Len(name) : name[i] \notin Whitespace }

\* A name without the whitespace around it: from its first to its last
\* character that is no whitespace.
Core(name) ==
    IF Inked(name) = {}
    THEN << >>
    ELSE SubSeq(name,
                CHOOSE i \in Inked(name) : \A j \in Inked(name) : i <= j,
                CHOOSE i \in Inked(name) : \A j \in Inked(name) : i >= j)

\* The step is a call that went through the else-branch and succeeded.
Stores == ~lastCall'.hit /\ lastCall'.outcome = "table"

\* C12: the table slot and both keys are empty at construction; every
\* successful call that is no hit puts the table it parsed, a new object, in
\* the slot, and query_planet / query_star set their kind's key to the quoted
\* trimmed name; once a table is stored the slot is never empty again.
C12_CacheLifecycle ==
    /\ _table = NoTable /\ _cache_planet = None /\ _cache_star = None
    /\ [][ /\ _table # NoTable => _table' # NoTable
           /\ Stores =>
                /\ _table' = lastCall'.returned
                /\ _table' # NoTable
                /\ _table' # _table
                /\ _table'.id = fetches'
                /\ DOMAIN _table'.units
                     = DOMAIN lastCall'.parsed \cup {"sky_coord"}
                /\ lastCall'.op = "planet" =>
                     _cache_planet' = <<"'">> \o Core(lastCall'.name) \o <<"'">>
                /\ lastCall'.op = "star" =>
                     _cache_star' = <<"'">> \o Core(lastCall'.name) \o <<"'">>
         ]_vars

\* query_star(" a ") replacing a stored table and setting the star key 'a'.
C12_Witness ==
    /\ lastCall.op = "star"
    /\ lastCall.name = <<" ", "a", " ">>
    /\ lastCall.before.table # NoTable
    /\ Refetched
    /\ fetches = 2
    /\ _cache_star = <<"'", "a", "'">>

\* C13: a call that ends with a download, parse or annotation error returns
\* nothing and leaves the stored table and both keys as it found them; and
\* no step changes a key without changing the table.
C13_FailedCallLeavesCache ==
    [][ /\ (lastCall'.op # "none" /\ lastCall'.outcome # "table") =>
              /\ lastCall'.outcome
                   \in {"fetch_error", "parse_error", "annotate_error"}
              /\ lastCall'.returned = NoTable
              /\ UNCHANGED <<_table, _cache_planet, _cache_star>>
        /\ (_cache_planet' # _cache_planet \/ _cache_star' # _cache_star) =>
              _table' # _table
      ]_vars

\* A query_star that failed on the missing ra/dec columns, on a client that
\* holds a table and a planet key, which are still there.
C13_Witness ==
    /\ lastCall.op = "star"
    /\ lastCall.outcome = "annotate_error"
    /\ lastCall.before.table # NoTable
    /\ lastCall.before.planet # None
    /\ Cache = lastCall.before

C15_DownloadOnlyWithoutPath ==
    lastCall.op # "none" =>
        /\ lastCall.table_path # NoPath =>
             /\ lastCall.downloads = << >>
             /\ lastCall.hit \/ lastCall.reads = <<lastCall.table_path>>
        /\ lastCall.hit => lastCall.downloads = << >>
        /\ (~lastCall.hit /\ lastCall.table_path = NoPath) =>
             lastCall.downloads =
                << [url |-> IF lastCall.all_columns
                            THEN BaseUrl \o "&select=*"
                            ELSE BaseUrl,
                    cache |-> lastCall.cache,
                    show_progress |-> lastCall.show_progress,
                    timeout |-> 120] >>

\* get_confirmed_planets_table(cache=False, show_progress=False) downloading
\* the whole table.
C15_Witness ==
    /\ lastCall.op = "all"
    /\ ~lastCall.hit
    /\ ~lastCall.cache
    /\ ~lastCall.show_progress
    /\ lastCall.table_path = NoPath
    /\ Len(lastCall.downloads) = 1
    /\ lastCall.downloads[1].url = EXOPLANETS_CSV_URL
    /\ ~lastCall.downloads[1].show_progress
    /\ lastCall.downloads[1].timeout = 120

\* The where-clause of the last call's operation.
WhereClause ==
    IF lastCall.op = "planet" THEN "&where=pl_name=" ELSE "&where=pl_hostname="

\* C16: the key of query_planet and query_star is the name without the
\* whitespace around it, between single quotes; the URL is the endpoint, the
\* operation's where-clause and the escaped key; names that differ only in
\* the whitespace around them give one key and one URL; and every name, the
\* empty one included, gets as far as the download.
C16_NameNormalization ==
    ByName =>
        /\ lastCall.key = <<"'">> \o Core(lastCall.name) \o <<"'">>
        /\ Len(lastCall.downloads) = 1
        /\ lastCall.downloads[1].url
             = EXOPLANETS_CSV_URL \o WhereClause \o quote(lastCall.key)
        /\ lastCall.outcome = "fetch_error"
        /\ \A n \in AllNames :
             Core(n) = Core(lastCall.name) =>
                /\ QuotedName(n) = lastCall.key
                /\ EXOPLANETS_CSV_URL \o WhereClause \o quote(QuotedName(n))
                     = lastCall.downloads[1].url

\* query_planet(" a ") asking for the URL of the key 'a'.
C16_Witness ==
    /\ lastCall.op = "planet"
    /\ lastCall.name = <<" ", "a", " ">>
    /\ lastCall.key = <<"'", "a", "'">>
    /\ Len(lastCall.downloads) = 1
    /\ lastCall.downloads[1].url
         = "http://exoplanetarchive.ipac.caltech.edu/cgi-bin/nstedAPI/nph-nstedAPI?table=exoplanets&where=pl_name=%27a%27"

\* The last step was an operation of the client.
Operation == lastCall'.op \in {"planet", "star", "all"}

\* C17: the units mapping is not loaded at construction; a call that returns
\* the stored table or that raises before the units loop leaves it as it is;
\* the first access, by the units loop or by a caller, reads the resource;
\* the resource is read at most once and a loaded mapping never changes.
C17_UnitsLoadedOnce ==
    /\ _param_units = NoUnits /\ units_reads = 0
    /\ [][ /\ units_reads' <= 1
           /\ (Operation /\ (lastCall'.hit \/ lastCall'.outcome # "table")) =>
                 UNCHANGED <<_param_units, units_reads>>
           /\ _param_units.loaded =>
                 UNCHANGED <<_param_units, units_reads>>
           /\ (~_param_units.loaded
                 /\ (Stores \/ lastCall'.op = "param_units")) =>
                 /\ _param_units' = [loaded |-> TRUE, map |-> UnitsResource]
                 /\ units_reads' = 1 ]_vars

\* Two tables annotated and the property read by a caller, on one read of
\* the resource.
C17_Witness ==
    /\ fetches = 2
    /\ lastCall.op = "param_units"
    /\ _param_units = [loaded |-> TRUE, map |-> UnitsResource]
    /\ units_reads = 1

====
